---- MODULE Spec2Model ----
(***************************************************************************)
(* Model of the FRAUDBUSTER training pipeline (nlp_module/train_model.py)  *)
(* and of the upload script (nlp_module/upload_models_firestore.py).       *)
(*                                                                         *)
(* Text is a sequence of characters, each character a one-element string   *)
(* ("U0130" is LATIN CAPITAL LETTER I WITH DOT ABOVE, "U0307" is COMBINING *)
(* DOT ABOVE).  A Python value is a record [kind, chars]: kind "str" for a *)
(* string, "none" for None/NaN, "TypeError" for a raised exception.        *)
(***************************************************************************)
EXTENDS Integers, Sequences, FiniteSets, TLC

VARIABLES
    arg,            \* clean_text spec: the argument of the call
    out1,           \* clean_text(arg)
    out2,           \* clean_text(clean_text(arg))
    cpc,            \* clean_text spec: "idle" | "start" | "once" | "twice"
    csv,            \* the rows of fake_job_postings.csv (input, never written)
    sites,          \* ../docs/sites/: NoDir, or its listing, a sequence of files
    mt19937,        \* the generator: seed |-> the stream it produces from that seed
    pc,             \* position of the script
    exc,            \* the uncaught exception that ended the run, or NoExc
    df,             \* the DataFrame df
    fraud_patterns, \* the list built by extract_fraud_patterns_from_sites
    fi,             \* number of directory entries the loop of line 47 has done
    stdout,         \* what was printed
    X_train,        \* the four results of train_test_split (Series)
    X_test,
    y_train,
    y_test,
    sort_kind,      \* how the installed argsort orders equal keys, once used
    vectorizer,     \* the TfidfVectorizer: fitted, vocabulary_, idf_
    X_train_vec,    \* the document-term matrices, a row for each document
    X_test_vec,
    model,          \* the LogisticRegression: fitted, coef_, intercept_, n_iter_
    stderr,         \* the warnings issued
    y_pred,         \* model.predict(X_test_vec)
    y_pred_proba,   \* model.predict_proba(X_test_vec)[:, 1], up to order
    accuracy,       \* the metrics of lines 236-240, fractions
    precision,
    recall,
    f1,
    roc_auc,
    cm,             \* confusion_matrix(y_test, y_pred), a list of rows
    top_fraud_features,  \* the lists of lines 246-247, (term, weight) pairs
    top_legit_features,
    report_content, \* what generate_markdown_report wrote to the report file
    files,          \* the files this run has written
    run,            \* 1 for the first run of the script, 2 for a repeated run
    prev,           \* the corpus, split and vectorizer of the previous run
    upc,            \* position of upload_models_firestore.py
    nlp_models,     \* Firestore collection nlp_models: document |-> its upload
    fraud_data,     \* Firestore document fraud_data/fraud_urls
    fraud_urls,     \* Firestore collection fraud_urls, the user reports
    before,         \* the three as they were when the running function was called
    new_urls,       \* the list read from fraud-urls.txt, or None
    existing_urls,  \* the set fetch_existing_fraud_urls builds
    model_success,  \* the results of the two uploads in main
    fraud_success,
    exit_code       \* the exit status of the upload script

cvars == <<arg, out1, out2, cpc>>

\* the variables of the stages after the split
vecvars == <<vectorizer, X_train_vec, X_test_vec>>

fitvars == <<model, stderr>>

evalvars == <<y_pred, y_pred_proba, accuracy, precision, recall, f1, roc_auc, cm>>

rankvars == <<top_fraud_features, top_legit_features>>

lvars == <<sort_kind, vecvars, fitvars, evalvars, rankvars, report_content, files>>

pvars == <<csv, sites, mt19937, pc, exc, df, fraud_patterns, fi, stdout,
           X_train, X_test, y_train, y_test, lvars, run, prev>>

\* the variables of the upload script
uvars == <<upc, nlp_models, fraud_data, fraud_urls, before, new_urls,
           existing_urls, model_success, fraud_success, exit_code>>

vars == <<cvars, pvars, uvars>>

-----------------------------------------------------------------------------
(* Bounds of the model *)

MaxChunks == 5

MaxRows == 2

MaxLongRows == 4

MaxFiles == 3

MaxStream == 1

\* number of distinct fraud URLs
MaxUrls == 2

\* number of lines of fraud-urls.txt
MaxLines == 2

-----------------------------------------------------------------------------
(* Python values *)

None == [kind |-> "none", chars |-> <<>>]

Str(s) == [kind |-> "str", chars |-> s]

PyInt(i) == [kind |-> "int", chars |-> <<>>, int |-> i]

TypeError == [kind |-> "TypeError", chars |-> <<>>]

-----------------------------------------------------------------------------
(* Character classes of Python's re (Unicode mode) and str methods *)

AsciiLower == <<"a","b","c","d","e","f","g","h","i","j","k","l","m",
                "n","o","p","q","r","s","t","u","v","w","x","y","z">>

AsciiUpper == <<"A","B","C","D","E","F","G","H","I","J","K","L","M",
                "N","O","P","Q","R","S","T","U","V","W","X","Y","Z">>

Digits == {"0","1","2","3","4","5","6","7","8","9"}

Range(f) == {f[i] : i \in DOMAIN f}

\* \w : alphanumeric characters of any script, and the underscore
WordChars == Range(AsciiLower) \cup Range(AsciiUpper) \cup Digits \cup {"_", "U0130"}

\* \s, and the characters str.split() splits on
Whitespace == {" ", "\t", "\n", "\r"}

\* [\r\n]
Newlines == {"\r", "\n"}

\* str.lower() of one character; U+0130 lowers to the two characters i, U+0307
lower_char(c) ==
    IF c \in Range(AsciiUpper)
    THEN <<AsciiLower[CHOOSE i \in 1..26 : AsciiUpper[i] = c]>>
    ELSE IF c = "U0130" THEN <<"i", "U0307">>
    ELSE <<c>>

-----------------------------------------------------------------------------
(* stop_words, train_model.py:20-30 *)

stop_words == {
    <<"i">>, <<"m","e">>, <<"m","y">>, <<"m","y","s","e","l","f">>, <<"w","e">>,
    <<"o","u","r">>, <<"o","u","r","s">>, <<"o","u","r","s","e","l","v","e","s">>,
    <<"y","o","u">>, <<"y","o","u","r">>, <<"y","o","u","r","s">>,
    <<"y","o","u","r","s","e","l","f">>, <<"y","o","u","r","s","e","l","v","e","s">>,
    <<"h","e">>, <<"h","i","m">>, <<"h","i","s">>, <<"h","i","m","s","e","l","f">>,
    <<"s","h","e">>, <<"h","e","r">>, <<"h","e","r","s">>, <<"h","e","r","s","e","l","f">>,
    <<"i","t">>, <<"i","t","s">>, <<"i","t","s","e","l","f">>, <<"t","h","e","y">>,
    <<"t","h","e","m">>, <<"t","h","e","i","r">>, <<"t","h","e","i","r","s">>,
    <<"t","h","e","m","s","e","l","v","e","s">>, <<"w","h","a","t">>, <<"w","h","i","c","h">>,
    <<"w","h","o">>, <<"w","h","o","m">>, <<"t","h","i","s">>, <<"t","h","a","t">>,
    <<"t","h","e","s","e">>, <<"t","h","o","s","e">>, <<"a","m">>, <<"i","s">>,
    <<"a","r","e">>, <<"w","a","s">>, <<"w","e","r","e">>, <<"b","e">>, <<"b","e","e","n">>,
    <<"b","e","i","n","g">>, <<"h","a","v","e">>, <<"h","a","s">>, <<"h","a","d">>,
    <<"h","a","v","i","n","g">>, <<"d","o">>, <<"d","o","e","s">>, <<"d","i","d">>,
    <<"d","o","i","n","g">>, <<"a">>, <<"a","n">>, <<"t","h","e">>, <<"a","n","d">>,
    <<"b","u","t">>, <<"i","f">>, <<"o","r">>, <<"b","e","c","a","u","s","e">>, <<"a","s">>,
    <<"u","n","t","i","l">>, <<"w","h","i","l","e">>, <<"o","f">>, <<"a","t">>, <<"b","y">>,
    <<"f","o","r">>, <<"w","i","t","h">>, <<"t","h","r","o","u","g","h">>,
    <<"d","u","r","i","n","g">>, <<"b","e","f","o","r","e">>, <<"a","f","t","e","r">>,
    <<"a","b","o","v","e">>, <<"b","e","l","o","w">>, <<"u","p">>, <<"d","o","w","n">>,
    <<"i","n">>, <<"o","u","t">>, <<"o","n">>, <<"o","f","f">>, <<"o","v","e","r">>,
    <<"u","n","d","e","r">>, <<"a","g","a","i","n">>, <<"f","u","r","t","h","e","r">>,
    <<"t","h","e","n">>, <<"o","n","c","e">>
}

-----------------------------------------------------------------------------
(* clean_text, train_model.py:32-39 *)

RECURSIVE DropWhile(_, _)
DropWhile(s, S) ==
    IF s = <<>> \/ Head(s) \notin S THEN s ELSE DropWhile(Tail(s), S)

RECURSIVE TakeWhile(_, _)
TakeWhile(s, S) ==
    IF s = <<>> \/ Head(s) \notin S THEN <<>> ELSE <<Head(s)>> \o TakeWhile(Tail(s), S)

\* re.sub(r'[\r\n]+', ' ', text)
RECURSIVE sub_newlines(_)
sub_newlines(s) ==
    IF s = <<>> THEN <<>>
    ELSE IF Head(s) \in Newlines
         THEN <<" ">> \o sub_newlines(DropWhile(s, Newlines))
         ELSE <<Head(s)>> \o sub_newlines(Tail(s))

\* re.sub(r'[^\w\s]', '', text)
sub_punct(s) == SelectSeq(s, LAMBDA c : c \in WordChars \cup Whitespace)

\* text.lower()
RECURSIVE lower(_)
lower(s) == IF s = <<>> THEN <<>> ELSE lower_char(Head(s)) \o lower(Tail(s))

\* text.split(): the maximal runs of non-whitespace characters, in order
RECURSIVE split(_)
split(s) ==
    LET rest == DropWhile(s, Whitespace)
        NonSpace == {c \in Range(rest) : c \notin Whitespace}
    IN  IF rest = <<>> THEN <<>>
        ELSE <<TakeWhile(rest, NonSpace)>> \o split(DropWhile(rest, NonSpace))

\* ' '.join(words)
RECURSIVE join(_)
join(words) ==
    IF words = <<>> THEN <<>>
    ELSE IF Len(words) = 1 THEN words[1]
    ELSE words[1] \o <<" ">> \o join(Tail(words))

\* mutant of keep_word: the length test admits two-character words
keep_word_len2(word) == word \notin stop_words /\ Len(word) >= 2

\* the condition of the list comprehension on line 38
keep_word(word) == word \notin stop_words /\ Len(word) > 2

\* pd.isnull(text)
isnull(text) == text.kind = "none"

\* lines 35-38, for a string
clean_str(s) ==
    join(SelectSeq(split(lower(sub_punct(sub_newlines(s)))), keep_word))

\* mutant of clean_text: the pd.isnull guard of lines 33-34 is missing
clean_text_unguarded(text) ==
    IF text.kind # "str" THEN TypeError ELSE Str(clean_str(text.chars))

clean_text(text) ==
    IF isnull(text) THEN Str(<<>>)
    ELSE IF text.kind # "str" THEN TypeError    \* re.sub on a non-string raises
    ELSE Str(clean_str(text.chars))

-----------------------------------------------------------------------------
(* The structured records: df = pd.read_csv(...), train_model.py:17 *)

FieldNames == <<"title", "location", "department", "company_profile",
                "description", "requirements", "benefits">>

\* a row of the CSV; the columns this model does not vary are absent (NaN)
CsvRow(title, benefits, label) ==
    [title |-> title, location |-> None, department |-> None,
     company_profile |-> None, description |-> None, requirements |-> None,
     benefits |-> benefits, fraudulent |-> label]

CsvRowKinds == <<
    CsvRow(Str(<<"J","o","b">>), None, 0),
    CsvRow(Str(<<"T","h","e">>), Str(<<"P","a","y"," ","f","e","e",".">>), 1),
    CsvRow(None, None, 0)
>>

CsvRows == Range(CsvRowKinds)

\* n rows that go round the kinds of row, from kind o + 1 on
Rotation(o, n) ==
    [i \in 1..n |-> CsvRowKinds[((o + i - 1) % Len(CsvRowKinds)) + 1]]

\* the CSV files of the model: every file of at most MaxRows rows, and the
\* rotations of at most MaxLongRows rows
CsvInputs ==
    UNION {[1..n -> CsvRows] : n \in 0..MaxRows}
        \cup {Rotation(o, n) : o \in 0..(Len(CsvRowKinds) - 1), n \in 0..MaxLongRows}

-----------------------------------------------------------------------------
(* The harvested documents: the directory ../docs/sites/ *)

SiteFile(stem, ext, readable, content) ==
    [stem |-> stem, ext |-> ext, readable |-> readable, content |-> content]

SiteFiles == {
    SiteFile("a", ".mhtml", TRUE,
             <<"<","b",">","P","a","y","<","/","b",">"," ","h","e"," ","n","o","w">>),
    SiteFile("b", ".mhtml", TRUE,
             <<"J","o","b","<","p",">",".","<","/","p",">">>),
    SiteFile("c", ".mhtml", FALSE, <<>>),
    SiteFile("notes", ".txt", TRUE, <<"J","o","b">>)
}

\* os.listdir: the entries of a directory, each once, in any order
Listings ==
    UNION {{l \in [1..n -> SiteFiles] :
               \A i, j \in 1..n : i # j => l[i] # l[j]} : n \in 0..MaxFiles}

SiteInputs ==
    {[exists |-> FALSE, listing |-> <<>>]}
        \cup {[exists |-> TRUE, listing |-> l] : l \in Listings}

\* filename.endswith(suffix)
endswith(file, suffix) == file.ext = suffix

\* BeautifulSoup(content, 'html.parser').get_text(): the text outside the tags
RECURSIVE get_text(_)
get_text(s) ==
    IF s = <<>> THEN <<>>
    ELSE IF Head(s) = "<"
         THEN LET tag == TakeWhile(s, Range(s) \ {">"})
              IN  get_text(SubSeq(s, Len(tag) + 2, Len(s)))
         ELSE <<Head(s)>> \o get_text(Tail(s))

-----------------------------------------------------------------------------
(* Text column construction, train_model.py:200-203 *)

\* a column that is used as it is, without fillna
fillna_skipped(v) == v

\* Series.fillna('') on one value
fillna(v) == IF isnull(v) THEN Str(<<>>) ELSE v

\* element-wise + of two columns of strings: NaN where either side is NaN
str_add(a, b) == IF isnull(a) \/ isnull(b) THEN None ELSE Str(a.chars \o b.chars)

\* title.fillna('') + ' ' + location.fillna('') + ... over the first k fields
RECURSIVE combine_fields(_, _)
combine_fields(row, k) ==
    IF k = 1 THEN fillna(row[FieldNames[1]])
    ELSE str_add(str_add(combine_fields(row, k - 1), Str(<<" ">>)),
                 fillna(row[FieldNames[k]]))

combine_text(row) == combine_fields(row, Len(FieldNames))

-----------------------------------------------------------------------------
(* train_test_split(df['text'], df['fraudulent'], test_size=0.2,           *)
(* random_state=42), train_model.py:220.  A Series is a sequence of        *)
(* [index, value]; the split takes rng.permutation(n), the first n_test    *)
(* positions for the test subset and the next n_train for the train one.   *)

\* mutant of test_size: the train fraction is passed as the test fraction
test_size_swapped == [num |-> 4, den |-> 5]

\* test_size = 0.2, as a fraction
test_size == [num |-> 1, den |-> 5]

\* mutant of random_state: the argument is left out
random_state_unset == None

\* seed of the shuffle; None seeds the generator from the OS entropy pool
random_state == PyInt(42)

\* df[column]
Series(frame, column) ==
    [i \in 1..Len(frame) |-> [index |-> i - 1, value |-> frame[i][column]]]

RemoveAt(s, i) == SubSeq(s, 1, i - 1) \o SubSeq(s, i + 1, Len(s))

\* the permutation of items that stream k selects
RECURSIVE Shuffle(_, _)
Shuffle(k, items) ==
    IF items = <<>> THEN <<>>
    ELSE LET i == (k % Len(items)) + 1
         IN  <<items[i]>> \o Shuffle(k \div Len(items), RemoveAt(items, i))

\* rng.permutation(n): a permutation of the positions 0..n-1
permutation(stream, n) == Shuffle(stream, [i \in 1..n |-> i - 1])

\* ceil(test_size * n_samples)
n_test_of(n) == (n * test_size.num + test_size.den - 1) \div test_size.den

\* series.iloc[positions]
iloc(series, positions) ==
    [k \in 1..Len(positions) |-> series[positions[k] + 1]]

\* a split that does not check the size of the train set
train_test_split_unchecked(X, y, stream) ==
    LET n == Len(X)
        n_test == n_test_of(n)
        perm == permutation(stream, n)
    IN  [raised |-> FALSE,
         X_train |-> iloc(X, SubSeq(perm, n_test + 1, n)),
         X_test |-> iloc(X, SubSeq(perm, 1, n_test)),
         y_train |-> iloc(y, SubSeq(perm, n_test + 1, n)),
         y_test |-> iloc(y, SubSeq(perm, 1, n_test))]

train_test_split(X, y, stream) ==
    LET n == Len(X)
        n_test == n_test_of(n)
        n_train == n - n_test
        perm == permutation(stream, n)
        ind_test == SubSeq(perm, 1, n_test)
        ind_train == SubSeq(perm, n_test + 1, n_test + n_train)
    IN  IF n_train = 0
        THEN [raised |-> TRUE, X_train |-> <<>>, X_test |-> <<>>,
              y_train |-> <<>>, y_test |-> <<>>]
        ELSE [raised |-> FALSE,
              X_train |-> iloc(X, ind_train), X_test |-> iloc(X, ind_test),
              y_train |-> iloc(y, ind_train), y_test |-> iloc(y, ind_test)]

-----------------------------------------------------------------------------
(* TfidfVectorizer(max_features=5000), train_model.py:223-225 *)

\* the characters of the model in code point order
CodePoints ==
    <<"0","1","2","3","4","5","6","7","8","9">> \o AsciiUpper \o <<"_">>
        \o AsciiLower \o <<"U0130", "U0307">>

ord(c) == CHOOSE i \in DOMAIN CodePoints : CodePoints[i] = c

\* a < b for two Python strings
RECURSIVE str_lt(_, _)
str_lt(a, b) ==
    IF b = <<>> THEN FALSE
    ELSE IF a = <<>> THEN TRUE
    ELSE IF Head(a) = Head(b) THEN str_lt(Tail(a), Tail(b))
    ELSE ord(Head(a)) < ord(Head(b))

\* sorted(S) for a set of strings
RECURSIVE sorted(_)
sorted(S) ==
    IF S = {} THEN <<>>
    ELSE LET m == CHOOSE x \in S : \A y \in S \ {x} : str_lt(x, y)
         IN  <<m>> \o sorted(S \ {m})

\* the default analyzer: lowercase, then re.findall(r"(?u)\b\w\w+\b", doc),
\* the maximal runs of two or more word characters
RECURSIVE findall_tokens(_)
findall_tokens(s) ==
    IF s = <<>> THEN <<>>
    ELSE IF Head(s) \notin WordChars THEN findall_tokens(Tail(s))
    ELSE LET w == TakeWhile(s, WordChars)
             rest == SubSeq(s, Len(w) + 1, Len(s))
         IN  (IF Len(w) >= 2 THEN <<w>> ELSE <<>>) \o findall_tokens(rest)

analyze(doc) == findall_tokens(lower(doc.chars))

\* the number of times a term occurs in a document
term_count(term, doc) == Len(SelectSeq(analyze(doc), LAMBDA t : t = term))

\* max_features of line 223: 5000 in the source, scaled down to the
\* vocabulary of the model's documents (fee, job, now, pay)
max_features == 3

\* how an argsort that is not stable may order equal keys: by increasing
\* or by decreasing position
SortKinds == {"stable", "reversed"}

\* the position that comes first among those of the set P, for keys
\* (the negated term frequencies) in increasing order
argsort_first(keys, P, kind) ==
    CHOOSE i \in P : \A j \in P \ {i} :
        \/ keys[i] < keys[j]
        \/ keys[i] = keys[j] /\ (IF kind = "stable" THEN i < j ELSE i > j)

\* keys.argsort()
RECURSIVE argsort_from(_, _, _)
argsort_from(keys, P, kind) ==
    IF P = {} THEN <<>>
    ELSE LET i == argsort_first(keys, P, kind)
         IN  <<i>> \o argsort_from(keys, P \ {i}, kind)

argsort(keys, kind) == argsort_from(keys, DOMAIN keys, kind)

\* the sum of a sequence of numbers
RECURSIVE np_sum(_)
np_sum(s) == IF s = <<>> THEN 0 ELSE Head(s) + np_sum(Tail(s))

\* _limit_features: when there are more than limit terms, the limit terms
\* with the greatest total count are kept, in the order they had
limit_features(terms, docs, limit, kind) ==
    IF Len(terms) <= limit THEN terms
    ELSE LET tfs == [j \in 1..Len(terms) |->
                        np_sum([k \in 1..Len(docs) |->
                                   term_count(terms[j], docs[k].value)])]
             order == argsort([j \in 1..Len(terms) |-> 0 - tfs[j]], kind)
             kept == {order[r] : r \in 1..limit}
         IN  SelectSeq(terms, LAMBDA t : \E j \in kept : terms[j] = t)

\* the terms of a Series of documents
terms_of(docs) == UNION {Range(analyze(docs[k].value)) : k \in 1..Len(docs)}

\* idf of a term: ln((1 + n) / (1 + df)) + 1, kept as the pair (n, df)
idf_of(term, docs) ==
    [n |-> Len(docs),
     df |-> Cardinality({k \in 1..Len(docs) : term_count(term, docs[k].value) > 0})]

NotFitted == [fitted |-> FALSE, vocabulary_ |-> <<>>, idf_ |-> <<>>]

\* vectorizer.fit(docs): vocabulary_ lists the terms, the term at place j
\* having index j - 1; raises ValueError when no document has a term
fit(docs, kind) ==
    LET terms == limit_features(sorted(terms_of(docs)), docs, max_features, kind)
    IN  IF terms_of(docs) = {}
        THEN [raised |-> TRUE, vectorizer |-> NotFitted]
        ELSE [raised |-> FALSE,
              vectorizer |-> [fitted |-> TRUE, vocabulary_ |-> terms,
                              idf_ |-> [j \in 1..Len(terms) |->
                                           idf_of(terms[j], docs)]]]

\* a transform that leaves out the documents without a known term
transform_known(vec, docs) ==
    LET known == SelectSeq(docs, LAMBDA d :
                     \E j \in 1..Len(vec.vocabulary_) :
                         term_count(vec.vocabulary_[j], d.value) > 0)
    IN  [k \in 1..Len(known) |->
            [j \in 1..Len(vec.vocabulary_) |->
                [tf |-> term_count(vec.vocabulary_[j], known[k].value),
                 idf |-> vec.idf_[j]]]]

\* vectorizer.transform(docs): a row for each document, an entry for each
\* term of the vocabulary: the count of the term with its idf weight (the
\* row is then scaled to length 1; an entry is zero exactly when tf is 0)
transform(vec, docs) ==
    [k \in 1..Len(docs) |->
        [j \in 1..Len(vec.vocabulary_) |->
            [tf |-> term_count(vec.vocabulary_[j], docs[k].value),
             idf |-> vec.idf_[j]]]]

-----------------------------------------------------------------------------
(* LogisticRegression() and the metrics, train_model.py:227-241 *)

\* max_iter of LogisticRegression(): the library's default (100), scaled down
max_iter == 2

\* what the optimizer may return for nfeat features: the weights it has
\* reached, the iterations it took (never more than max_iter), and whether
\* it converged within them.  The weights range over four classifiers:
\* any known term is a sign of fraud (the weights halving from one term to
\* the next), or of a legitimate posting (equal weights), and two that do
\* not look at the terms
TrainOutcomes(nfeat) ==
    {[coef_ |-> [j \in 1..nfeat |->
                    IF c.halving THEN c.w * 2 ^ (nfeat - j) ELSE c.w],
      intercept_ |-> c.b, n_iter_ |-> c.n, converged |-> c.ok] :
        c \in {[w |-> 4, halving |-> TRUE, b |-> -1, n |-> 1, ok |-> TRUE],
               [w |-> -4, halving |-> FALSE, b |-> 1, n |-> max_iter, ok |-> TRUE],
               [w |-> 0, halving |-> FALSE, b |-> -1, n |-> max_iter, ok |-> FALSE],
               [w |-> 4, halving |-> FALSE, b |-> 1, n |-> max_iter, ok |-> FALSE]}}

\* the values of a Series, as a set
unique(series) == {series[k].value : k \in 1..Len(series)}

\* model.decision_function(row), up to sign and order, computed from the
\* non-zero entries of the row.  A row has length 1 and entries >= 0, so
\* the sum of its entries is 1 for one non-zero entry and above 1 for more,
\* and its score without the intercept lies between its least weight and
\* the sum of its weights.  For the weights of TrainOutcomes (all equal, or
\* halving, each beyond the intercept) and the documents of the model (the
\* texts of two terms are all of class 1, and of their two entries the one
\* of the rarer, earlier term is the greater) this gives the sign of every
\* score and the order of every pair of scores of a class 1 and a class 0
\* document
decision_function(m, row) ==
    m.intercept_ + np_sum([j \in 1..Len(row) |->
                              IF row[j].tf > 0 THEN m.coef_[j] ELSE 0])

\* model.predict(X): class 1 when the score is positive
predict(m, X) ==
    [k \in 1..Len(X) |-> IF decision_function(m, X[k]) > 0 THEN 1 ELSE 0]

\* model.predict_proba(X)[:, 1]: increasing in the score, kept as the score
predict_proba(m, X) == [k \in 1..Len(X) |-> decision_function(m, X[k])]

\* a metric value: the fraction num / den; 0 / 0 is NaN
Frac(n, d) == [num |-> n, den |-> d, set |-> TRUE]

NaN == Frac(0, 0)

\* the number of test documents of true class t predicted as p
count_pairs(y_true, pred, t, p) ==
    Cardinality({k \in 1..Len(y_true) : y_true[k].value = t /\ pred[k] = p})

\* accuracy_score(y_true, y_pred)
accuracy_score(y_true, pred) ==
    Frac(Cardinality({k \in 1..Len(y_true) : y_true[k].value = pred[k]}),
         Len(y_true))

\* precision_score(y_true, y_pred): tp / (tp + fp); 0.0 and a warning when
\* nothing is predicted positive
precision_score(y_true, pred) ==
    LET tp == count_pairs(y_true, pred, 1, 1)
        fp == count_pairs(y_true, pred, 0, 1)
    IN  IF tp + fp = 0 THEN [value |-> Frac(0, 1), warned |-> TRUE]
        ELSE [value |-> Frac(tp, tp + fp), warned |-> FALSE]

\* recall_score(y_true, y_pred): tp / (tp + fn); 0.0 and a warning when
\* no document is truly positive
recall_score(y_true, pred) ==
    LET tp == count_pairs(y_true, pred, 1, 1)
        fn == count_pairs(y_true, pred, 1, 0)
    IN  IF tp + fn = 0 THEN [value |-> Frac(0, 1), warned |-> TRUE]
        ELSE [value |-> Frac(tp, tp + fn), warned |-> FALSE]

\* f1_score(y_true, y_pred): 2 tp / (2 tp + fp + fn); 0.0 and a warning
\* when there are no true and no predicted positives
f1_score(y_true, pred) ==
    LET tp == count_pairs(y_true, pred, 1, 1)
        fp == count_pairs(y_true, pred, 0, 1)
        fn == count_pairs(y_true, pred, 1, 0)
    IN  IF tp + fp + fn = 0 THEN [value |-> Frac(0, 1), warned |-> TRUE]
        ELSE [value |-> Frac(2 * tp, 2 * tp + fp + fn), warned |-> FALSE]

\* roc_auc_score(y_true, y_score): the share of (positive, negative) pairs
\* the score orders rightly, a tied pair counting one half.  With one class
\* in y_true there is no pair: the library raises ValueError, or (later
\* releases) warns and returns NaN
roc_auc_score(y_true, score, lenient) ==
    LET pos == {k \in 1..Len(y_true) : y_true[k].value = 1}
        neg == {k \in 1..Len(y_true) : y_true[k].value = 0}
        above == {q \in pos \X neg : score[q[1]] > score[q[2]]}
        tied == {q \in pos \X neg : score[q[1]] = score[q[2]]}
    IN  IF pos = {} \/ neg = {}
        THEN [raised |-> ~lenient, value |-> NaN, warned |-> lenient]
        ELSE [raised |-> FALSE, warned |-> FALSE,
              value |-> Frac(2 * Cardinality(above) + Cardinality(tied),
                             2 * Cardinality(pos) * Cardinality(neg))]

\* sorted(S) for a set of class labels
RECURSIVE sorted_labels(_)
sorted_labels(S) ==
    IF S = {} THEN <<>>
    ELSE LET m == CHOOSE x \in S : \A y \in S : x <= y
         IN  <<m>> \o sorted_labels(S \ {m})

\* a confusion matrix over the labels of y_true alone
confusion_matrix_true_labels(y_true, pred) ==
    LET labels == sorted_labels(unique(y_true))
    IN  [i \in 1..Len(labels) |->
            [j \in 1..Len(labels) |->
                count_pairs(y_true, pred, labels[i], labels[j])]]

\* confusion_matrix(y_true, y_pred): the labels are those that occur in
\* y_true or y_pred, in increasing order; a row for each true label and a
\* column for each predicted label
confusion_matrix(y_true, pred) ==
    LET labels == sorted_labels(unique(y_true) \cup Range(pred))
    IN  [i \in 1..Len(labels) |->
            [j \in 1..Len(labels) |->
                count_pairs(y_true, pred, labels[i], labels[j])]]

-----------------------------------------------------------------------------
(* Feature importance, train_model.py:244-247 *)

\* the length of the two lists: 20 in the source ([:20]), scaled down to
\* the vocabulary of the model
top_n == 2

\* zip(feature_names, feature_importance)
zip(names, weights) ==
    [j \in 1..(IF Len(names) < Len(weights) THEN Len(names) ELSE Len(weights)) |->
        [term |-> names[j], weight |-> weights[j]]]

\* the place that sorted puts first among those of the set P: the least
\* key (the greatest with reverse=True) and, of equal keys, the earliest
first_sorted(pairs, P, reverse) ==
    CHOOSE i \in P : \A j \in P \ {i} :
        \/ IF reverse THEN pairs[i].weight > pairs[j].weight
                      ELSE pairs[i].weight < pairs[j].weight
        \/ pairs[i].weight = pairs[j].weight /\ i < j

RECURSIVE sorted_from(_, _, _)
sorted_from(pairs, P, reverse) ==
    IF P = {} THEN <<>>
    ELSE LET i == first_sorted(pairs, P, reverse)
         IN  <<pairs[i]>> \o sorted_from(pairs, P \ {i}, reverse)

\* a descending order got by reversing the ascending one
sorted_by_weight_flipped(pairs, reverse) ==
    LET up == sorted_from(pairs, DOMAIN pairs, FALSE)
    IN  IF reverse THEN [k \in 1..Len(up) |-> up[Len(up) + 1 - k]] ELSE up

\* sorted(pairs, key=lambda x: x[1], reverse=reverse): a stable sort
sorted_by_weight(pairs, reverse) == sorted_from(pairs, DOMAIN pairs, reverse)

\* s[:n]
head(s, n) == SubSeq(s, 1, IF Len(s) < n THEN Len(s) ELSE n)

-----------------------------------------------------------------------------
(* Formatting of the two reports, train_model.py:61-198 and 250-286 *)

\* the number of indicators each report lists: 10 in the source ([:10]),
\* scaled down with top_n
shown_n == 1

\* n / d rounded to a whole number, a half going to the even neighbour
round_div(n, d) ==
    LET q == n \div d
        r == n % d
    IN  IF 2 * r > d \/ (2 * r = d /\ q % 2 = 1) THEN q + 1 ELSE q

\* f"{v * scale:.{places}f}": the digits of the rounded value, or "nan"
format_f(v, scale, places) ==
    IF v.den = 0 THEN [text |-> "nan", negative |-> FALSE, digits |-> 0,
                       places |-> places]
    ELSE LET n == v.num * scale * 10 ^ places
         IN  [text |-> "number", negative |-> (n < 0),
              digits |-> round_div(IF n < 0 THEN 0 - n ELSE n, v.den),
              places |-> places]

\* the decimal digits of a natural number
RECURSIVE str_int(_)
str_int(n) ==
    IF n < 10 THEN <<CodePoints[n + 1]>>
    ELSE str_int(n \div 10) \o <<CodePoints[(n % 10) + 1]>>

\* f"{n:,}": the digits in groups of three
RECURSIVE format_grouped(_)
format_grouped(n) ==
    IF n < 1000 THEN str_int(n)
    ELSE format_grouped(n \div 1000) \o <<",">>
             \o SubSeq(str_int(1000 + (n % 1000)), 2, 4)

\* f"{m:.4f} ({m*100:.2f}%)" on the terminal, the Score and Percentage
\* cells of the table in the report
format_metric(m) == [score |-> format_f(m, 1, 4), percent |-> format_f(m, 100, 2)]

\* the rows of an indicator table: the first shown_n terms with
\* f"{weight:.4f}" (right-aligned on the terminal)
format_features(features) ==
    LET shown == SubSeq(features, 1,
                        IF Len(features) < shown_n THEN Len(features) ELSE shown_n)
    IN  [i \in 1..Len(shown) |->
            [rank |-> i, feature |-> shown[i].term,
             weight |-> format_f([num |-> shown[i].weight, den |-> 1], 1, 4)]]

-----------------------------------------------------------------------------
(* The script, train_model.py:17 and 200-298 *)

NoExc == [type |-> "none", at |-> "none"]

NoRun == [split |-> "none", df |-> <<>>,
          X_train |-> <<>>, X_test |-> <<>>, y_train |-> <<>>, y_test |-> <<>>,
          vectorizer |-> NotFitted]

NotTrained == [fitted |-> FALSE, coef_ |-> <<>>, intercept_ |-> 0, n_iter_ |-> 0]

\* a variable the script has not assigned yet
Unset == [num |-> 0, den |-> 0, set |-> FALSE]

\* positions at which a run has ended
Halted == {"done", "aborted"}

\* positions before train_test_split has returned or raised
BeforeSplit == {"read_csv", "combine", "clean", "extract", "extract_loop",
                "add_fraud", "split"}

\* the five documents upload_to_firestore writes, in the order of its writes
ModelDocs == <<"metadata", "vectorizer", "model_base", "feature_log_prob",
               "feature_count">>

NoDocument == [exists |-> FALSE, urls |-> <<>>, url_count |-> 0]

\* None where a list is expected
NoList == [kind |-> "none", items |-> <<>>]

\* the upload script does not run in this specification
UploadIdle ==
    /\ upc = "idle"
    /\ nlp_models = [d \in Range(ModelDocs) |-> "absent"]
    /\ fraud_data = NoDocument
    /\ fraud_urls = {}
    /\ before = [nlp_models |-> nlp_models, fraud_data |-> fraud_data,
                 fraud_urls |-> fraud_urls]
    /\ new_urls = NoList
    /\ existing_urls = {}
    /\ model_success = "unset"
    /\ fraud_success = "unset"
    /\ exit_code = "running"

CleanIdle ==
    /\ arg = None
    /\ out1 = None
    /\ out2 = None
    /\ cpc = "idle"

ProcessStart ==
    /\ pc = "read_csv"
    /\ exc = NoExc
    /\ df = <<>>
    /\ fraud_patterns = <<>>
    /\ fi = 0
    /\ stdout = <<>>
    /\ X_train = <<>>
    /\ X_test = <<>>
    /\ y_train = <<>>
    /\ y_test = <<>>
    /\ vectorizer = NotFitted
    /\ X_train_vec = <<>>
    /\ X_test_vec = <<>>
    /\ model = NotTrained
    /\ stderr = <<>>
    /\ y_pred = <<>>
    /\ y_pred_proba = <<>>
    /\ accuracy = Unset
    /\ precision = Unset
    /\ recall = Unset
    /\ f1 = Unset
    /\ roc_auc = Unset
    /\ cm = <<>>
    /\ top_fraud_features = <<>>
    /\ top_legit_features = <<>>
    /\ report_content = <<>>
    /\ files = {}

Init ==
    /\ CleanIdle
    /\ UploadIdle
    /\ csv \in CsvInputs
    /\ sites \in SiteInputs
    /\ mt19937 \in [{random_state} -> 0..MaxStream]
    /\ ProcessStart
    /\ sort_kind = "unset"
    /\ run = 1
    /\ prev = NoRun

\* line 17
ReadCsv ==
    /\ pc = "read_csv"
    /\ df' = csv
    /\ pc' = "combine"
    /\ UNCHANGED <<cvars, uvars, lvars, csv, sites, mt19937, exc, fraud_patterns, fi, stdout,
                   X_train, X_test, y_train, y_test, run, prev>>

\* line 201
CombineText ==
    /\ pc = "combine"
    /\ df' = [i \in 1..Len(df) |-> ("text" :> combine_text(df[i])) @@ df[i]]
    /\ pc' = "clean"
    /\ UNCHANGED <<cvars, uvars, lvars, csv, sites, mt19937, exc, fraud_patterns, fi, stdout,
                   X_train, X_test, y_train, y_test, run, prev>>

\* line 203
ApplyCleanText ==
    /\ pc = "clean"
    /\ df' = [i \in 1..Len(df) |-> [df[i] EXCEPT !.text = clean_text(@)]]
    /\ pc' = "extract"
    /\ UNCHANGED <<cvars, uvars, lvars, csv, sites, mt19937, exc, fraud_patterns, fi, stdout,
                   X_train, X_test, y_train, y_test, run, prev>>

\* lines 206-207 and 43-46: the call, up to the loop
ExtractBegin ==
    /\ pc = "extract"
    /\ stdout' = Append(stdout, [msg |-> "Extracting fraud patterns"])
    /\ fraud_patterns' = <<>>
    /\ fi' = 0
    /\ pc' = "extract_loop"
    /\ UNCHANGED <<cvars, uvars, lvars, csv, sites, mt19937, exc, df,
                   X_train, X_test, y_train, y_test, run, prev>>

\* mutant of ExtractFile: no try/except around the load (lines 49, 56-57)
ExtractFile_uncaught ==
    /\ pc = "extract_loop"
    /\ sites.exists
    /\ fi < Len(sites.listing)
    /\ LET file == sites.listing[fi + 1]
       IN  IF ~endswith(file, ".mhtml")
           THEN UNCHANGED <<fraud_patterns, pc, exc>>
           ELSE IF file.readable
           THEN /\ fraud_patterns' =
                       Append(fraud_patterns, clean_text(Str(get_text(file.content))))
                /\ UNCHANGED <<pc, exc>>
           ELSE /\ pc' = "aborted"
                /\ exc' = [type |-> "OSError", at |-> "extract_loop"]
                /\ UNCHANGED fraud_patterns
    /\ fi' = fi + 1
    /\ UNCHANGED <<cvars, uvars, lvars, csv, sites, mt19937, df, stdout,
                   X_train, X_test, y_train, y_test, run, prev>>

\* mutant of ExtractFile: the extracted text is appended as it is (line 55)
ExtractFile_raw ==
    /\ pc = "extract_loop"
    /\ sites.exists
    /\ fi < Len(sites.listing)
    /\ LET file == sites.listing[fi + 1]
       IN  IF ~endswith(file, ".mhtml")
           THEN UNCHANGED <<fraud_patterns, stdout>>
           ELSE IF file.readable
           THEN /\ fraud_patterns' =
                       Append(fraud_patterns, Str(get_text(file.content)))
                /\ UNCHANGED stdout
           ELSE /\ stdout' = Append(stdout, [msg |-> "Error reading",
                                             stem |-> file.stem, ext |-> file.ext])
                /\ UNCHANGED fraud_patterns
    /\ fi' = fi + 1
    /\ UNCHANGED <<cvars, uvars, lvars, csv, sites, mt19937, pc, exc, df,
                   X_train, X_test, y_train, y_test, run, prev>>

\* lines 47-57: one iteration of the loop over os.listdir(sites_dir)
ExtractFile ==
    /\ pc = "extract_loop"
    /\ sites.exists
    /\ fi < Len(sites.listing)
    /\ LET file == sites.listing[fi + 1]
       IN  IF ~endswith(file, ".mhtml")
           THEN UNCHANGED <<fraud_patterns, stdout>>
           ELSE IF file.readable
           THEN /\ fraud_patterns' =
                       Append(fraud_patterns, clean_text(Str(get_text(file.content))))
                /\ UNCHANGED stdout
           ELSE /\ stdout' = Append(stdout, [msg |-> "Error reading",
                                             stem |-> file.stem, ext |-> file.ext])
                /\ UNCHANGED fraud_patterns
    /\ fi' = fi + 1
    /\ UNCHANGED <<cvars, uvars, lvars, csv, sites, mt19937, pc, exc, df,
                   X_train, X_test, y_train, y_test, run, prev>>

\* lines 59 and 207-208: the loop is over (or the directory is missing)
ExtractReturn ==
    /\ pc = "extract_loop"
    /\ ~sites.exists \/ fi = Len(sites.listing)
    /\ stdout' = Append(stdout, [msg |-> "Extracted", count |-> Len(fraud_patterns)])
    /\ pc' = "add_fraud"
    /\ UNCHANGED <<cvars, uvars, lvars, csv, sites, mt19937, exc, df, fraud_patterns, fi,
                   X_train, X_test, y_train, y_test, run, prev>>

\* lines 212-216 with the two frames of pd.concat in the other order
concat_fraud_first(frame, patterns) ==
    [k \in 1..Len(patterns) |-> [text |-> patterns[k], fraudulent |-> 1]]
        \o [i \in 1..Len(frame) |->
               [text |-> frame[i].text, fraudulent |-> frame[i].fraudulent]]

\* lines 212-216 with the harvested documents marked 0
concat_fraud_unmarked(frame, patterns) ==
    [i \in 1..Len(frame) |->
        [text |-> frame[i].text, fraudulent |-> frame[i].fraudulent]]
        \o [k \in 1..Len(patterns) |-> [text |-> patterns[k], fraudulent |-> 0]]

\* lines 212-216: pd.concat([df[['text', 'fraudulent']], fraud_df],
\* ignore_index=True)
concat_fraud(frame, patterns) ==
    LET fraud_df == [k \in 1..Len(patterns) |->
                        [text |-> patterns[k], fraudulent |-> 1]]
        base == [i \in 1..Len(frame) |->
                    [text |-> frame[i].text, fraudulent |-> frame[i].fraudulent]]
    IN  base \o fraud_df

\* lines 211-217
AddFraudPatterns ==
    /\ pc = "add_fraud"
    /\ IF fraud_patterns # <<>>
       THEN /\ df' = concat_fraud(df, fraud_patterns)
            /\ stdout' = Append(stdout, [msg |-> "Total dataset size",
                                         count |-> Len(df')])
       ELSE UNCHANGED <<df, stdout>>
    /\ pc' = "split"
    /\ UNCHANGED <<cvars, uvars, lvars, csv, sites, mt19937, exc, fraud_patterns, fi,
                   X_train, X_test, y_train, y_test, run, prev>>

\* line 220
SplitData ==
    /\ pc = "split"
    /\ \E entropy \in 0..MaxStream :
          LET stream == IF isnull(random_state) THEN entropy
                        ELSE mt19937[random_state]
              r == train_test_split(Series(df, "text"), Series(df, "fraudulent"),
                                    stream)
          IN  IF r.raised
              THEN /\ pc' = "aborted"
                   /\ exc' = [type |-> "ValueError", at |-> "split"]
                   /\ UNCHANGED <<X_train, X_test, y_train, y_test>>
              ELSE /\ pc' = "vectorize"
                   /\ X_train' = r.X_train
                   /\ X_test' = r.X_test
                   /\ y_train' = r.y_train
                   /\ y_test' = r.y_test
                   /\ UNCHANGED exc
    /\ UNCHANGED <<cvars, uvars, lvars, csv, sites, mt19937, df, fraud_patterns, fi, stdout,
                   run, prev>>

\* line 224: X_train_vec = vectorizer.fit_transform(X_train)
FitVectorizer ==
    /\ pc = "vectorize"
    /\ \E kind \in SortKinds :
          LET r == fit(X_train, kind)
              sorts == Cardinality(terms_of(X_train)) > max_features
          IN  /\ IF sorts THEN sort_kind \in {"unset", kind} ELSE kind = "stable"
              /\ sort_kind' = IF sorts THEN kind ELSE sort_kind
              /\ IF r.raised
                 THEN /\ pc' = "aborted"
                      /\ exc' = [type |-> "ValueError", at |-> "vectorize"]
                      /\ UNCHANGED <<vectorizer, X_train_vec>>
                 ELSE /\ pc' = "transform"
                      /\ vectorizer' = r.vectorizer
                      /\ X_train_vec' = transform(r.vectorizer, X_train)
                      /\ UNCHANGED exc
    /\ UNCHANGED <<cvars, uvars, csv, sites, mt19937, df, fraud_patterns, fi, stdout,
                   X_train, X_test, y_train, y_test, X_test_vec, fitvars,
                   evalvars,
                   rankvars, report_content, files, run, prev>>

\* fit_transform in the place of transform
TransformTest_refit ==
    /\ pc = "transform"
    /\ \E kind \in SortKinds :
          LET r == fit(X_test, kind)
          IN  /\ vectorizer' = r.vectorizer
              /\ X_test_vec' = transform(r.vectorizer, X_test)
    /\ pc' = "train"
    /\ UNCHANGED <<cvars, uvars, csv, sites, mt19937, exc, df, fraud_patterns, fi,
                   stdout, X_train, X_test, y_train, y_test, sort_kind,
                   X_train_vec, fitvars, evalvars,
                   rankvars, report_content, files, run, prev>>

\* line 225: X_test_vec = vectorizer.transform(X_test)
TransformTest ==
    /\ pc = "transform"
    /\ X_test_vec' = transform(vectorizer, X_test)
    /\ pc' = "train"
    /\ UNCHANGED <<cvars, uvars, csv, sites, mt19937, exc, df, fraud_patterns, fi,
                   stdout, X_train, X_test, y_train, y_test, sort_kind,
                   vectorizer, X_train_vec, fitvars, evalvars,
                   rankvars, report_content, files, run, prev>>

\* an uncaught exception ends the run
Raise(type, at) ==
    /\ pc' = "aborted"
    /\ exc' = [type |-> type, at |-> at]

\* a warning of the library, written to stderr
Warn(log, category, at, warned) ==
    IF warned THEN Append(log, [category |-> category, at |-> at]) ELSE log

\* a fit that raises when the optimizer has not converged
TrainModel_strict ==
    /\ pc = "train"
    /\ run = 1
    /\ IF Cardinality(unique(y_train)) < 2
       THEN /\ Raise("ValueError", "train")
            /\ UNCHANGED <<model, stderr>>
       ELSE \E o \in TrainOutcomes(Len(vectorizer.vocabulary_)) :
               IF o.converged
               THEN /\ model' = [fitted |-> TRUE, coef_ |-> o.coef_,
                                 intercept_ |-> o.intercept_,
                                 n_iter_ |-> o.n_iter_]
                    /\ pc' = "evaluate"
                    /\ UNCHANGED <<exc, stderr>>
               ELSE /\ Raise("ConvergenceError", "train")
                    /\ UNCHANGED <<model, stderr>>
    /\ UNCHANGED <<cvars, uvars, csv, sites, mt19937, df, fraud_patterns, fi, stdout,
                   X_train, X_test, y_train, y_test, sort_kind, vecvars,
                   evalvars,
                   rankvars, report_content, files, run, prev>>

\* lines 227-229: model = LogisticRegression(); model.fit(X_train_vec, y_train)
\* (the repeated run is followed as far as its fitted vectorizer)
TrainModel ==
    /\ pc = "train"
    /\ run = 1
    /\ IF Cardinality(unique(y_train)) < 2
       THEN /\ Raise("ValueError", "train")
            /\ UNCHANGED <<model, stderr>>
       ELSE \E o \in TrainOutcomes(Len(vectorizer.vocabulary_)) :
               /\ model' = [fitted |-> TRUE, coef_ |-> o.coef_,
                            intercept_ |-> o.intercept_, n_iter_ |-> o.n_iter_]
               /\ stderr' = Warn(stderr, "ConvergenceWarning", "train",
                                 ~o.converged)
               /\ pc' = "evaluate"
               /\ UNCHANGED exc
    /\ UNCHANGED <<cvars, uvars, csv, sites, mt19937, df, fraud_patterns, fi, stdout,
                   X_train, X_test, y_train, y_test, sort_kind, vecvars,
                   evalvars,
                   rankvars, report_content, files, run, prev>>

\* lines 232-241: the predictions and the metrics
Evaluate ==
    /\ pc = "evaluate"
    /\ \E lenient \in BOOLEAN :
          LET pred == predict(model, X_test_vec)
              proba == predict_proba(model, X_test_vec)
              p == precision_score(y_test, pred)
              r == recall_score(y_test, pred)
              f == f1_score(y_test, pred)
              a == roc_auc_score(y_test, proba, lenient)
              w3 == Warn(Warn(Warn(stderr,
                        "UndefinedMetricWarning", "precision_score", p.warned),
                        "UndefinedMetricWarning", "recall_score", r.warned),
                        "UndefinedMetricWarning", "f1_score", f.warned)
          IN  /\ y_pred' = pred
              /\ y_pred_proba' = proba
              /\ accuracy' = accuracy_score(y_test, pred)
              /\ precision' = p.value
              /\ recall' = r.value
              /\ f1' = f.value
              /\ IF a.raised
                 THEN /\ Raise("ValueError", "roc_auc_score")
                      /\ stderr' = w3
                      /\ UNCHANGED <<roc_auc, cm>>
                 ELSE /\ roc_auc' = a.value
                      /\ stderr' = Warn(w3, "UndefinedMetricWarning",
                                        "roc_auc_score", a.warned)
                      /\ cm' = confusion_matrix(y_test, pred)
                      /\ pc' = "rank"
                      /\ UNCHANGED exc
    /\ UNCHANGED <<cvars, uvars, csv, sites, mt19937, df, fraud_patterns, fi, stdout,
                   X_train, X_test, y_train, y_test, sort_kind, vecvars,
                   model, rankvars, report_content, files, run, prev>>

\* lines 244-247: the terms with the greatest and with the least weights
RankFeatures ==
    /\ pc = "rank"
    /\ LET feature_names == vectorizer.vocabulary_
           feature_importance == model.coef_
           pairs == zip(feature_names, feature_importance)
       IN  /\ top_fraud_features' = head(sorted_by_weight(pairs, TRUE), top_n)
           /\ top_legit_features' = head(sorted_by_weight(pairs, FALSE), top_n)
    /\ pc' = "console"
    /\ UNCHANGED <<cvars, uvars, csv, sites, mt19937, exc, df, fraud_patterns, fi,
                   stdout, X_train, X_test, y_train, y_test, sort_kind, vecvars,
                   fitvars, evalvars, report_content, files, run, prev>>

\* cm[i, j] of the script (0-based); an index out of bounds is an IndexError
InBounds(m, i, j) == i + 1 <= Len(m) /\ j + 1 <= Len(m[i + 1])

cell(m, i, j) == m[i + 1][j + 1]

\* lines 254-264: the sizes and the five metrics; each line keeps the value
\* handed to the f-string and the text it is printed as
metrics_lines ==
    <<[msg |-> "Dataset Size", count |-> Len(df), text |-> str_int(Len(df))],
      [msg |-> "Training Set", count |-> Len(X_train),
       text |-> str_int(Len(X_train))],
      [msg |-> "Test Set", count |-> Len(X_test), text |-> str_int(Len(X_test))],
      [msg |-> "PERFORMANCE METRICS", accuracy |-> accuracy,
       precision |-> precision, recall |-> recall, f1 |-> f1,
       roc_auc |-> roc_auc,
       text |-> [accuracy |-> format_metric(accuracy),
                 precision |-> format_metric(precision),
                 recall |-> format_metric(recall),
                 f1 |-> format_metric(f1),
                 roc_auc |-> format_metric(roc_auc)]]>>

\* lines 269-270: the four cells, read at [0,0], [0,1], [1,0], [1,1]
confusion_lines(m) ==
    <<[msg |-> "CONFUSION MATRIX",
       true_negatives |-> cell(m, 0, 0), false_positives |-> cell(m, 0, 1),
       false_negatives |-> cell(m, 1, 0), true_positives |-> cell(m, 1, 1),
       text |-> [true_negatives |-> str_int(cell(m, 0, 0)),
                 false_positives |-> str_int(cell(m, 0, 1)),
                 false_negatives |-> str_int(cell(m, 1, 0)),
                 true_positives |-> str_int(cell(m, 1, 1))]]>>

\* lines 272-282: the two indicator tables
feature_lines ==
    <<[msg |-> "TOP 10 FRAUD INDICATORS",
       rows |-> format_features(top_fraud_features)],
      [msg |-> "TOP 10 LEGITIMACY INDICATORS",
       rows |-> format_features(top_legit_features)]>>

\* a report whose legitimacy table shows the size of each weight, the
\* quantity its Impact column is computed from
generate_markdown_report_abs(acc, prec, rec, f, auc, m, fraud, legit, total, train, test) ==
    [summary |-> [accuracy |-> format_f(acc, 100, 1),
                  roc_auc |-> format_f(auc, 100, 1)],
     dataset |-> [total |-> format_grouped(total),
                  train |-> format_grouped(train),
                  train_share |-> format_f(Frac(train, total), 100, 1),
                  test |-> format_grouped(test),
                  test_share |-> format_f(Frac(test, total), 100, 1)],
     metrics |-> [accuracy |-> format_metric(acc),
                  precision |-> format_metric(prec),
                  recall |-> format_metric(rec),
                  f1 |-> format_metric(f),
                  roc_auc |-> format_metric(auc)],
     matrix |-> [true_negatives |-> str_int(cell(m, 0, 0)),
                 false_positives |-> str_int(cell(m, 0, 1)),
                 false_negatives |-> str_int(cell(m, 1, 0)),
                 true_positives |-> str_int(cell(m, 1, 1))],
     fraud |-> format_features(fraud),
     legit |-> format_features(
                  [i \in 1..Len(legit) |->
                      [term |-> legit[i].term,
                       weight |-> IF legit[i].weight < 0 THEN 0 - legit[i].weight
                                  ELSE legit[i].weight]])]

\* lines 61-198: the text of the report, as the values it shows: the summary
\* sentence, the Dataset Overview, the Core Metrics table, the confusion
\* matrix and the two indicator tables
generate_markdown_report(acc, prec, rec, f, auc, m, fraud, legit, total, train, test) ==
    [summary |-> [accuracy |-> format_f(acc, 100, 1),
                  roc_auc |-> format_f(auc, 100, 1)],
     dataset |-> [total |-> format_grouped(total),
                  train |-> format_grouped(train),
                  train_share |-> format_f(Frac(train, total), 100, 1),
                  test |-> format_grouped(test),
                  test_share |-> format_f(Frac(test, total), 100, 1)],
     metrics |-> [accuracy |-> format_metric(acc),
                  precision |-> format_metric(prec),
                  recall |-> format_metric(rec),
                  f1 |-> format_metric(f),
                  roc_auc |-> format_metric(auc)],
     matrix |-> [true_negatives |-> str_int(cell(m, 0, 0)),
                 false_positives |-> str_int(cell(m, 0, 1)),
                 false_negatives |-> str_int(cell(m, 1, 0)),
                 true_positives |-> str_int(cell(m, 1, 1))],
     fraud |-> format_features(fraud),
     legit |-> format_features(legit)]

\* lines 250-286: the report on the terminal
ConsoleReport ==
    /\ pc = "console"
    /\ IF InBounds(cm, 0, 1) /\ InBounds(cm, 1, 1)
       THEN /\ stdout' = stdout \o metrics_lines \o confusion_lines(cm)
                               \o feature_lines
            /\ pc' = "markdown"
            /\ UNCHANGED exc
       ELSE /\ stdout' = stdout \o metrics_lines
            /\ Raise("IndexError", "console")
    /\ UNCHANGED <<cvars, uvars, lvars, csv, sites, mt19937, df, fraud_patterns, fi,
                   X_train, X_test, y_train, y_test, run, prev>>

\* lines 289-291 and 61-198: generate_markdown_report
MarkdownReport ==
    /\ pc = "markdown"
    /\ IF InBounds(cm, 0, 1) /\ InBounds(cm, 1, 1)
       THEN /\ report_content' =
                   generate_markdown_report(accuracy, precision, recall, f1,
                       roc_auc, cm, top_fraud_features, top_legit_features,
                       Len(df), Len(X_train), Len(X_test))
            /\ files' = files \cup {"model_evaluation_report.md"}
            /\ pc' = "save"
            /\ UNCHANGED exc
       ELSE /\ Raise("IndexError", "markdown")
            /\ UNCHANGED <<files, report_content>>
    /\ UNCHANGED <<cvars, uvars, csv, sites, mt19937, df, fraud_patterns, fi, stdout,
                   X_train, X_test, y_train, y_test, sort_kind, vecvars,
                   fitvars, evalvars, rankvars, run, prev>>

\* a script whose pickling block stands before the reports
SaveModel_early ==
    /\ pc = "console"
    /\ "nlp_model.pkl" \notin files
    /\ files' = files \cup {"nlp_model.pkl", "vectorizer.pkl"}
    /\ stdout' = Append(stdout, [msg |-> "Model and vectorizer saved.",
                                 count |-> 2])
    /\ UNCHANGED <<cvars, uvars, csv, sites, mt19937, pc, exc, df, fraud_patterns, fi,
                   X_train, X_test, y_train, y_test, sort_kind, vecvars,
                   fitvars, evalvars, rankvars, report_content, run, prev>>

\* lines 294-302: the model and the vectorizer are pickled
SaveModel ==
    /\ pc = "save"
    /\ files' = files \cup {"nlp_model.pkl", "vectorizer.pkl"}
    /\ stdout' = Append(stdout, [msg |-> "Model and vectorizer saved.",
                                 count |-> 2])
    /\ pc' = "done"
    /\ UNCHANGED <<cvars, uvars, csv, sites, mt19937, exc, df, fraud_patterns, fi,
                   X_train, X_test, y_train, y_test, sort_kind, vecvars,
                   fitvars, evalvars, rankvars, report_content, run, prev>>

\* the script is run again on the same files
Rerun ==
    /\ pc \in Halted
    /\ run = 1
    /\ prev' = [split |-> IF exc.at = "split" THEN "raised" ELSE "returned",
                df |-> df, X_train |-> X_train, X_test |-> X_test,
                y_train |-> y_train, y_test |-> y_test,
                vectorizer |-> vectorizer]
    /\ run' = 2
    /\ pc' = "read_csv"
    /\ exc' = NoExc
    /\ df' = <<>>
    /\ fraud_patterns' = <<>>
    /\ fi' = 0
    /\ stdout' = <<>>
    /\ X_train' = <<>>
    /\ X_test' = <<>>
    /\ y_train' = <<>>
    /\ y_test' = <<>>
    /\ vectorizer' = NotFitted
    /\ X_train_vec' = <<>>
    /\ X_test_vec' = <<>>
    /\ model' = NotTrained
    /\ stderr' = <<>>
    /\ y_pred' = <<>>
    /\ y_pred_proba' = <<>>
    /\ accuracy' = Unset
    /\ precision' = Unset
    /\ recall' = Unset
    /\ f1' = Unset
    /\ roc_auc' = Unset
    /\ cm' = <<>>
    /\ top_fraud_features' = <<>>
    /\ top_legit_features' = <<>>
    /\ report_content' = <<>>
    /\ files' = {}
    /\ UNCHANGED <<cvars, uvars, csv, sites, mt19937, sort_kind>>

Next ==
    \/ ReadCsv
    \/ CombineText
    \/ ApplyCleanText
    \/ ExtractBegin
    \/ ExtractFile
    \/ ExtractReturn
    \/ AddFraudPatterns
    \/ SplitData
    \/ FitVectorizer
    \/ TransformTest
    \/ TrainModel
    \/ Evaluate
    \/ RankFeatures
    \/ ConsoleReport
    \/ MarkdownReport
    \/ SaveModel
    \/ Rerun

Spec == Init /\ [][Next]_vars

-----------------------------------------------------------------------------
(* Specification of clean_text alone: the argument is drawn from the       *)
(* concatenations of at most MaxChunks chunks, or is None; the function is *)
(* applied once, then to its own result.                                   *)

Chunks == {<<"H","e">>, <<"j","o","b">>, <<"p","a","y">>, <<"t">>,
           <<"U0130">>, <<".">>, <<" ">>, <<"\n">>}

RECURSIVE Concats(_)
Concats(n) ==
    IF n = 0 THEN {<<>>}
    ELSE LET shorter == Concats(n - 1)
         IN  shorter \cup {c \o s : c \in Chunks, s \in shorter}

CleanArgs(n) == {None} \cup {Str(s) : s \in Concats(n)}

\* the script itself does not run in this specification
PipelineIdle ==
    /\ csv = <<>>
    /\ sites = [exists |-> FALSE, listing |-> <<>>]
    /\ mt19937 = [s \in {random_state} |-> 0]
    /\ ProcessStart
    /\ sort_kind = "unset"
    /\ run = 1
    /\ prev = NoRun

CleanInit ==
    /\ arg \in CleanArgs(MaxChunks)
    /\ out1 = None
    /\ out2 = None
    /\ cpc = "start"
    /\ PipelineIdle
    /\ UploadIdle

CleanOnce ==
    /\ cpc = "start"
    /\ out1' = clean_text(arg)
    /\ cpc' = "once"
    /\ UNCHANGED <<arg, out2, pvars, uvars>>

CleanTwice ==
    /\ cpc = "once"
    /\ out2' = clean_text(out1)
    /\ cpc' = "twice"
    /\ UNCHANGED <<arg, out1, pvars, uvars>>

CleanNext == CleanOnce \/ CleanTwice

SpecClean == CleanInit /\ [][CleanNext]_vars

-----------------------------------------------------------------------------
(* The upload script, upload_models_firestore.py.  Firestore is the three  *)
(* variables nlp_models, fraud_data and fraud_urls; a call of its client   *)
(* either takes effect or raises.                                          *)

\* the fraud URLs of the model: one-letter host names
Urls == {<<AsciiLower[i]>> : i \in 1..MaxUrls}

\* the lists of at most n URLs, repetitions included
RECURSIVE UrlLists(_)
UrlLists(n) ==
    IF n = 0 THEN {<<>>}
    ELSE UrlLists(n - 1)
             \cup {Append(l, u) : l \in {x \in UrlLists(n - 1) : Len(x) = n - 1},
                                  u \in Urls}

\* the documents of the fraud_urls collection: a report with a url field,
\* or a document without one
ReportDocs ==
    {[has_url |-> TRUE, url |-> u] : u \in Urls}
        \cup {[has_url |-> FALSE, url |-> <<>>]}

\* fraud_data/fraud_urls as upload_fraud_urls_to_firestore writes it
\* (lines 185-197)
fraud_data_of(merged_urls) ==
    [exists |-> TRUE, urls |-> sorted(merged_urls),
     url_count |-> Cardinality(merged_urls)]

\* Firestore before the script runs: the model documents of an earlier
\* upload or none, the document of an earlier merge or none, any reports
UploadInit ==
    /\ CleanIdle
    /\ PipelineIdle
    /\ upc = "check_files"
    /\ nlp_models \in {[d \in Range(ModelDocs) |-> "absent"],
                        [d \in Range(ModelDocs) |-> "old"]}
    /\ fraud_data \in {NoDocument}
                        \cup {fraud_data_of(S) : S \in SUBSET Urls \ {{}}}
    /\ fraud_urls \in SUBSET ReportDocs
    /\ before = [nlp_models |-> nlp_models, fraud_data |-> fraud_data,
                 fraud_urls |-> fraud_urls]
    /\ new_urls = NoList
    /\ existing_urls = {}
    /\ model_success = "unset"
    /\ fraud_success = "unset"
    /\ exit_code = "running"

\* upload_to_firestore returns False (lines 225-235, 241, 246, 334-336)
ReturnFalse ==
    /\ model_success' = "False"
    /\ upc' = "read_urls"

\* lines 220-235: the three os.path.exists checks
CheckModelFiles ==
    /\ upc = "check_files"
    /\ before' = [before EXCEPT !.nlp_models = nlp_models]
    /\ \E missing \in {"none", "nlp_model", "vectorizer", "metadata"} :
          IF missing = "none"
          THEN upc' = "read_files" /\ UNCHANGED model_success
          ELSE ReturnFalse
    /\ UNCHANGED <<cvars, pvars, nlp_models, fraud_data, fraud_urls, new_urls,
                   existing_urls, fraud_success, exit_code>>

\* lines 237-259: the two JSON files are read (a file that does not parse
\* or holds an empty value gives False), the metadata and the sizes are
\* taken (an exception gives False)
ReadModelFiles ==
    /\ upc = "read_files"
    /\ \E outcome \in {"read", "no_model_data", "no_vectorizer_data", "raised"} :
          IF outcome = "read"
          THEN upc' = "set_metadata" /\ UNCHANGED model_success
          ELSE ReturnFalse
    /\ UNCHANGED <<cvars, pvars, nlp_models, fraud_data, fraud_urls, before,
                   new_urls, existing_urls, fraud_success, exit_code>>

\* db.collection('nlp_models').document(name).set(...): the document is
\* replaced, or the call raises and the handler of line 334 returns False
SetDocument(name, at, next) ==
    /\ upc = at
    /\ \E ok \in BOOLEAN :
          IF ok
          THEN /\ nlp_models' = [nlp_models EXCEPT ![name] = "new"]
               /\ upc' = next
               /\ model_success' = IF next = "read_urls" THEN "True"
                                   ELSE model_success
          ELSE /\ ReturnFalse
               /\ UNCHANGED nlp_models
    /\ UNCHANGED <<cvars, pvars, fraud_data, fraud_urls, before, new_urls,
                   existing_urls, fraud_success, exit_code>>

\* lines 261-276
SetMetadata == SetDocument("metadata", "set_metadata", "set_vectorizer")

\* lines 278-286
SetVectorizer == SetDocument("vectorizer", "set_vectorizer", "set_model_base")

\* lines 288-301
SetModelBase ==
    SetDocument("model_base", "set_model_base", "set_feature_log_prob")

\* lines 303-312
SetFeatureLogProb ==
    SetDocument("feature_log_prob", "set_feature_log_prob", "set_feature_count")

\* lines 314-332: the last write, the summary and return True
SetFeatureCount == SetDocument("feature_count", "set_feature_count", "read_urls")

\* lines 103-117 and 350-357: read_fraud_urls gives None (no file, or an
\* error) or the non-empty stripped lines; main calls the merge only for a
\* non-empty list
ReadFraudUrls ==
    /\ upc = "read_urls"
    /\ \E content \in {NoList}
                  \cup {[kind |-> "list", items |-> l] : l \in UrlLists(MaxLines)} :
          /\ new_urls' = content
          /\ IF content.items # <<>>
             THEN /\ upc' = "fetch_document"
                  /\ before' = [before EXCEPT !.fraud_data = fraud_data,
                                              !.fraud_urls = fraud_urls]
                  /\ UNCHANGED fraud_success
             ELSE /\ upc' = "finish"
                  /\ fraud_success' = "False"
                  /\ UNCHANGED before
    /\ UNCHANGED <<cvars, pvars, nlp_models, fraud_data, fraud_urls,
                   existing_urls, model_success, exit_code>>

\* the handler of lines 148-151: the fetch gives the empty set
FetchFailed ==
    /\ existing_urls' = {}
    /\ upc' = "merge"

\* lines 122-130: the urls of fraud_data/fraud_urls
FetchDocument ==
    /\ upc = "fetch_document"
    /\ \E ok \in BOOLEAN :
          IF ok
          THEN /\ existing_urls' = IF fraud_data.exists
                                   THEN Range(fraud_data.urls) ELSE {}
               /\ upc' = "fetch_reports"
          ELSE FetchFailed
    /\ UNCHANGED <<cvars, pvars, nlp_models, fraud_data, fraud_urls, before,
                   new_urls, model_success, fraud_success, exit_code>>

\* lines 132-146: the url of every document of the fraud_urls collection
FetchReports ==
    /\ upc = "fetch_reports"
    /\ \E ok \in BOOLEAN :
          IF ok
          THEN /\ existing_urls' =
                      existing_urls \cup {d.url : d \in {r \in fraud_urls : r.has_url}}
               /\ upc' = "merge"
          ELSE FetchFailed
    /\ UNCHANGED <<cvars, pvars, nlp_models, fraud_data, fraud_urls, before,
                   new_urls, model_success, fraud_success, exit_code>>

\* lines 161-214: the union is written with doc_ref.set and True is
\* returned, or the call raises and False is returned
MergeAndUpload ==
    /\ upc = "merge"
    /\ \E ok \in BOOLEAN :
          IF ok
          THEN /\ fraud_data' =
                      fraud_data_of(existing_urls \cup Range(new_urls.items))
               /\ fraud_success' = "True"
          ELSE /\ fraud_success' = "False"
               /\ UNCHANGED fraud_data
    /\ upc' = "finish"
    /\ UNCHANGED <<cvars, pvars, nlp_models, fraud_urls, before, new_urls,
                   existing_urls, model_success, exit_code>>

\* lines 359-388: the final status; sys.exit(1) when both uploads failed
Finish ==
    /\ upc = "finish"
    /\ exit_code' = IF model_success = "False" /\ fraud_success = "False"
                    THEN "1" ELSE "0"
    /\ upc' = "exited"
    /\ UNCHANGED <<cvars, pvars, nlp_models, fraud_data, fraud_urls, before,
                   new_urls, existing_urls, model_success, fraud_success>>

UploadNext ==
    \/ CheckModelFiles
    \/ ReadModelFiles
    \/ SetMetadata
    \/ SetVectorizer
    \/ SetModelBase
    \/ SetFeatureLogProb
    \/ SetFeatureCount
    \/ ReadFraudUrls
    \/ FetchDocument
    \/ FetchReports
    \/ MergeAndUpload
    \/ Finish

SpecUpload == UploadInit /\ [][UploadNext]_vars

-----------------------------------------------------------------------------
(* Claims about clean_text *)

\* C1: clean_text is idempotent: clean_text(clean_text(x)) = clean_text(x)
\* for every input x.
C1_Idempotent == cpc = "twice" => out2 = out1

\* C2: clean_text is total: None gives the empty string, and every string
\* (empty, non-ASCII) gives a string; no call raises.
C2_Total ==
    /\ cpc # "start" => out1.kind = "str"
    /\ cpc # "start" /\ arg = None => out1 = Str(<<>>)
    /\ cpc # "start" /\ arg = Str(<<>>) => out1 = Str(<<>>)
    /\ cpc = "twice" => out2.kind = "str"

C2_Witness ==
    /\ cpc = "once"
    /\ arg = None
    /\ out1 = Str(<<>>)

\* a string whose only whitespace is one space between two other characters
SingleSpaced(s) ==
    /\ \A i \in 1..Len(s) : s[i] \in Whitespace => s[i] = " "
    /\ s # <<>> => s[1] # " " /\ s[Len(s)] # " "
    /\ \A i \in 1..(Len(s) - 1) : ~(s[i] = " " /\ s[i + 1] = " ")

\* the words the specification keeps: not a stop word, at least 3 characters
SpecKeeps(w) == w \notin stop_words /\ Len(w) >= 3

\* C3: the output is exactly the whitespace-separated tokens of the cleaned,
\* lowercased input that are not stop words and have at least 3 characters,
\* in their original order, joined by single spaces.
C3_KeptTokens ==
    cpc # "start" /\ arg.kind = "str" =>
        LET cleaned == lower(sub_punct(sub_newlines(arg.chars)))
            toks == split(out1.chars)
        IN  /\ SingleSpaced(out1.chars)
            /\ \A i \in 1..Len(toks) : SpecKeeps(toks[i])
            /\ toks = SelectSeq(split(cleaned), SpecKeeps)

\* two different words are kept, in order, around a dropped stop word
C3_Witness ==
    /\ cpc = "once"
    /\ arg = Str(<<"p","a","y"," ","H","e","\n","j","o","b">>)
    /\ out1 = Str(<<"p","a","y"," ","j","o","b">>)

\* C4: the output of clean_text is never longer than its input.
C4_LengthNotIncreased ==
    cpc # "start" /\ arg.kind = "str" => Len(out1.chars) <= Len(arg.chars)

-----------------------------------------------------------------------------
(* Claims about the corpus and the split *)

\* the harvested files that load: .mhtml entries that can be read, in
\* listing order
LoadedFiles ==
    IF sites.exists
    THEN SelectSeq(sites.listing, LAMBDA f : f.ext = ".mhtml" /\ f.readable)
    ELSE <<>>

\* the harvested files whose load fails, among the first k entries
FailedAmong(k) ==
    IF sites.exists
    THEN SelectSeq(SubSeq(sites.listing, 1, k),
                   LAMBDA f : f.ext = ".mhtml" /\ ~f.readable)
    ELSE <<>>

\* the corpus is complete: the run is at the split or has just done it
CorpusBuilt ==
    \/ pc \in {"split", "vectorize"}
    \/ pc = "aborted" /\ exc.at = "split"

\* C5: with N structured records and H harvested documents that load, the
\* corpus has N + H documents: first the N records in record order, then the
\* H harvested documents in file order.
C5_CorpusOrder ==
    CorpusBuilt =>
        LET N == Len(csv)
            H == Len(LoadedFiles)
        IN  /\ Len(df) = N + H
            /\ \A i \in 1..N :
                  /\ df[i].text = clean_text(combine_text(csv[i]))
                  /\ df[i].fraudulent = csv[i].fraudulent
            /\ \A j \in 1..H :
                  df[N + j].text = clean_text(Str(get_text(LoadedFiles[j].content)))

\* two different records, then two different harvested documents, with a
\* third file that did not load
C5_Witness ==
    /\ pc = "split"
    /\ Len(csv) >= 2
    /\ csv[1] # csv[2]
    /\ Len(LoadedFiles) = 2
    /\ Len(sites.listing) = 3
    /\ df[Len(csv) + 1].text # df[Len(csv) + 2].text

\* C6: every document from a harvested file is labelled 1 (FRAUDULENT)
\* whatever its content; every document from a structured record carries
\* the record's own label.
C6_Labels ==
    CorpusBuilt =>
        \A i \in 1..Len(df) :
            IF i <= Len(csv)
            THEN df[i].fraudulent = csv[i].fraudulent
            ELSE df[i].fraudulent = 1

\* a harvested document with the same text as a record labelled 0
C6_Witness ==
    /\ pc = "split"
    /\ \E i \in 1..Len(csv) : \E j \in (Len(csv) + 1)..Len(df) :
          /\ df[i].text = df[j].text
          /\ df[i].fraudulent = 0
          /\ df[j].fraudulent = 1

\* the "Error reading" lines printed so far
Warnings == SelectSeq(stdout, LAMBDA m : m.msg = "Error reading")

\* C7: a harvested file whose load fails contributes no document and gets a
\* warning; the other files are still processed and contribute their
\* documents; the run is not aborted by the failure.
C7_LoadFailureSkipped ==
    /\ exc.at # "extract_loop"
    /\ pc = "extract_loop" /\ sites.exists =>
          /\ fi <= Len(sites.listing)
          /\ Len(Warnings) = Len(FailedAmong(fi))
    /\ pc = "add_fraud" \/ CorpusBuilt =>
          /\ sites.exists => fi = Len(sites.listing)
          /\ fraud_patterns =
                [j \in 1..Len(LoadedFiles) |->
                    clean_text(Str(get_text(LoadedFiles[j].content)))]
          /\ Warnings =
                [j \in 1..Len(FailedAmong(fi)) |->
                    [msg |-> "Error reading", stem |-> FailedAmong(fi)[j].stem,
                     ext |-> FailedAmong(fi)[j].ext]]

\* the file that fails is listed before one that loads, and the run has
\* reached the split
C7_Witness ==
    /\ pc = "split"
    /\ Len(sites.listing) >= 2
    /\ ~sites.listing[1].readable
    /\ sites.listing[1].ext = ".mhtml"
    /\ Len(LoadedFiles) >= 1
    /\ Len(fraud_patterns) = Len(LoadedFiles)
    /\ Len(Warnings) = 1

\* what clean_text gives for the raw text of the records and of the files
CleanOutputs ==
    {clean_text(combine_text(csv[i])) : i \in 1..Len(csv)}
        \cup {clean_text(Str(get_text(sites.listing[j].content))) :
                 j \in 1..Len(sites.listing)}

\* no markup, no line break and no capital letter
NoRawContent(s) ==
    \A i \in 1..Len(s) :
        s[i] \notin {"<", ">", "/"} \cup Newlines \cup Range(AsciiUpper)

\* C8: every text that reaches the split is an output of clean_text; no raw
\* or markup-bearing text enters the corpus, from records or from files.
C8_OnlyCleanText ==
    CorpusBuilt =>
        LET outputs == CleanOutputs
        IN  \A i \in 1..Len(df) :
            /\ df[i].text \in outputs
            /\ df[i].text.kind = "str"
            /\ NoRawContent(df[i].text.chars)
            /\ SingleSpaced(df[i].text.chars)

\* a record and a marked-up harvested file, both raw, are in the corpus
C8_Witness ==
    /\ pc = "split"
    /\ Len(csv) >= 1
    /\ combine_text(csv[1]) # df[1].text
    /\ Len(df) > Len(csv)
    /\ \E j \in 1..Len(LoadedFiles) : "<" \in Range(LoadedFiles[j].content)

\* C9: two runs with the same seed on the same corpus give the same split.
C9_SameSeedSameSplit ==
    run = 2 /\ pc \notin BeforeSplit /\ prev.df = df =>
        /\ prev.split = (IF exc.at = "split" THEN "raised" ELSE "returned")
        /\ X_train = prev.X_train
        /\ X_test = prev.X_test
        /\ y_train = prev.y_train
        /\ y_test = prev.y_test

\* the second run has split a corpus of 3 or more documents, shuffled
C9_Witness ==
    /\ run = 2
    /\ pc = "vectorize"
    /\ prev.split = "returned"
    /\ prev.df = df
    /\ Len(df) >= 3
    /\ X_test[1].index # 0

\* the index labels of a Series
Indexes(series) == {series[k].index : k \in 1..Len(series)}

\* a text Series and a label Series hold the same rows of the frame
RowsOf(frame, X, y) ==
    /\ Len(X) = Len(y)
    /\ Cardinality(Indexes(X)) = Len(X)
    /\ \A k \in 1..Len(X) :
          /\ y[k].index = X[k].index
          /\ X[k].value = frame[X[k].index + 1].text
          /\ y[k].value = frame[X[k].index + 1].fraudulent

\* C10: the split is a partition: every document is in exactly one of train
\* and test, with its own label; the sizes add up to the corpus size; the
\* test subset has ceil(0.2 * n) documents.
C10_Partition ==
    pc = "vectorize" =>
        LET n == Len(df)
        IN  /\ Indexes(X_train) \cup Indexes(X_test) = 0..(n - 1)
            /\ Indexes(X_train) \cap Indexes(X_test) = {}
            /\ RowsOf(df, X_train, y_train)
            /\ RowsOf(df, X_test, y_test)
            /\ Len(X_train) + Len(X_test) = n
            /\ 5 * Len(X_test) >= n
            /\ 5 * (Len(X_test) - 1) < n

\* a corpus of 6 documents, 2 of them in the test subset, shuffled
C10_Witness ==
    /\ pc = "vectorize"
    /\ Len(df) = 6
    /\ Len(X_test) = 2
    /\ Len(X_train) = 4
    /\ X_test[1].index # 0

-----------------------------------------------------------------------------
(* Claims about the vectorizer *)

\* the terms of the vocabulary
Vocabulary == Range(vectorizer.vocabulary_)

\* C11: the vocabulary and the IDF weights are fixed by the fit on the
\* training documents alone: after the test documents are transformed they
\* are still the ones fitted on the training documents, and no term that
\* occurs only in test documents is in the vocabulary.
C11_FitOnTrainOnly ==
    pc = "train" =>
        /\ \E kind \in SortKinds : vectorizer = fit(X_train, kind).vectorizer
        /\ Vocabulary \subseteq terms_of(X_train)
        /\ \A j \in 1..Len(vectorizer.vocabulary_) :
              vectorizer.idf_[j] = idf_of(vectorizer.vocabulary_[j], X_train)
        /\ (terms_of(X_test) \ terms_of(X_train)) \cap Vocabulary = {}

\* the test documents have a term the training documents lack, and one
\* they share
C11_Witness ==
    /\ pc = "train"
    /\ terms_of(X_test) \ terms_of(X_train) # {}
    /\ terms_of(X_test) \cap Vocabulary # {}
    /\ Len(X_train_vec) = Len(X_train)
    /\ Len(X_test_vec) = Len(X_test)

\* a row of a document-term matrix is the zero vector
IsZero(row) == \A j \in 1..Len(row) : row[j].tf = 0

\* the documents of a Series that have no term of the vocabulary
Unknown(docs) ==
    {k \in 1..Len(docs) : Range(analyze(docs[k].value)) \cap Vocabulary = {}}

\* C12: transform does not raise on a document whose terms are all outside
\* the vocabulary or whose text is empty: the document gets the all-zero
\* vector of the vocabulary's length.
C12_UnknownIsZero ==
    /\ exc.at # "transform"
    /\ pc = "train" =>
          /\ Len(X_test_vec) = Len(X_test)
          /\ \A k \in 1..Len(X_test) :
                /\ Len(X_test_vec[k]) = Len(vectorizer.vocabulary_)
                /\ k \in Unknown(X_test) => IsZero(X_test_vec[k])

\* a test document has a text, of unknown terms only
C12_Witness ==
    /\ pc = "train"
    /\ vectorizer.vocabulary_ # <<>>
    /\ \E k \in Unknown(X_test) : X_test[k].value.chars # <<>>

\* the test documents are an empty text and a text with a known term
C12_WitnessEmpty ==
    /\ pc = "train"
    /\ Len(X_test) = 2
    /\ \E k \in Unknown(X_test) : X_test[k].value.chars = <<>>
    /\ \E k \in 1..Len(X_test) : k \notin Unknown(X_test)

\* the number of times a term occurs in the training documents
TrainCount(t) ==
    np_sum([k \in 1..Len(X_train) |-> term_count(t, X_train[k].value)])

\* C13: fitting the vectorizer twice on the same training texts gives the
\* same terms at the same indices; when more than max_features distinct
\* terms occur, the most frequent ones are kept and a tie in frequency goes
\* to the term that is first in lexicographic order.
C13_SameVocabularyLexTies ==
    pc = "transform" =>
        /\ run = 2 /\ prev.X_train = X_train =>
              vectorizer.vocabulary_ = prev.vectorizer.vocabulary_
        /\ \A t \in Vocabulary : \A u \in terms_of(X_train) \ Vocabulary :
              \/ TrainCount(t) > TrainCount(u)
              \/ TrainCount(t) = TrainCount(u) /\ str_lt(t, u)

-----------------------------------------------------------------------------
(* Claims about the evaluation *)

\* the confusion matrix line of the terminal report
PrintedMatrix == SelectSeq(stdout, LAMBDA m : m.msg = "CONFUSION MATRIX")

\* C14: the confusion matrix is 2 x 2 for every test partition; its cell
\* [i][j] counts the test documents of true class i predicted as class j,
\* the classes in the order LEGITIMATE (0), FRAUDULENT (1); the report,
\* which reads [0][0] as TN, [0][1] as FP, [1][0] as FN and [1][1] as TP,
\* reads the right cells.
C14_Matrix2x2 ==
    /\ pc = "console" =>
          /\ Len(cm) = 2
          /\ \A i \in 1..Len(cm) : Len(cm[i]) = 2
          /\ \A i, j \in 0..1 :
                InBounds(cm, i, j) =>
                    cell(cm, i, j) = count_pairs(y_test, y_pred, i, j)
    /\ pc = "markdown" =>
          /\ Len(PrintedMatrix) = 1
          /\ PrintedMatrix[1].true_negatives = count_pairs(y_test, y_pred, 0, 0)
          /\ PrintedMatrix[1].false_positives = count_pairs(y_test, y_pred, 0, 1)
          /\ PrintedMatrix[1].false_negatives = count_pairs(y_test, y_pred, 1, 0)
          /\ PrintedMatrix[1].true_positives = count_pairs(y_test, y_pred, 1, 1)
    /\ exc.at # "console"

\* the sum of the cells of a matrix
SumCells(m) == np_sum([i \in 1..Len(m) |-> np_sum(m[i])])

\* C15: the cells of the confusion matrix add up to the size of the test
\* partition, and so do the four cells the report prints.
C15_CellsSumToTestSize ==
    /\ pc = "console" => SumCells(cm) = Len(X_test)
    /\ pc = "markdown" =>
          PrintedMatrix[1].true_negatives + PrintedMatrix[1].false_positives
            + PrintedMatrix[1].false_negatives + PrintedMatrix[1].true_positives
              = Len(X_test)

\* a test partition of two documents, counted in two different cells
C15_Witness ==
    /\ pc = "markdown"
    /\ Len(X_test) = 2
    /\ Len(cm) = 2
    /\ \E i, j \in 0..1 : cell(cm, i, j) = 1

\* the value v is the quotient n / d
IsQuotient(v, n, d) == d # 0 /\ v.den # 0 /\ v.num * d = n * v.den

\* the metrics line of the terminal report
PrintedMetrics == SelectSeq(stdout, LAMBDA m : m.msg = "PERFORMANCE METRICS")

\* C16: for every pair of true and predicted label sequences, the reported
\* precision is TP / (TP + FP) and the reported recall is TP / (TP + FN),
\* with TP, FP, FN the cells of the reported confusion matrix.
C16_PrecisionRecallFromCells ==
    pc = "markdown" =>
        LET TP == PrintedMatrix[1].true_positives
            FP == PrintedMatrix[1].false_positives
            FN == PrintedMatrix[1].false_negatives
        IN  /\ IsQuotient(PrintedMetrics[1].precision, TP, TP + FP)
            /\ IsQuotient(PrintedMetrics[1].recall, TP, TP + FN)

\* C17: a training or test partition with a single class is detected and
\* the run is aborted with a diagnosis; no undefined metric (precision or
\* recall with a zero denominator, ROC-AUC over one class) is reported.
C17_DegenerateSplitAborted ==
    /\ pc \in {"evaluate", "rank", "console", "markdown", "save", "done"} =>
          /\ Cardinality(unique(y_train)) = 2
          /\ Cardinality(unique(y_test)) = 2
    /\ PrintedMetrics # <<>> =>
          /\ count_pairs(y_test, y_pred, 1, 1) + count_pairs(y_test, y_pred, 0, 1) > 0
          /\ count_pairs(y_test, y_pred, 1, 1) + count_pairs(y_test, y_pred, 1, 0) > 0
          /\ PrintedMetrics[1].roc_auc # NaN

-----------------------------------------------------------------------------
(* Claims about missing data and about training *)

\* C18: with a corpus of zero documents the run aborts no later than the
\* split: no vectorizer is fitted, no classifier is trained, no metric is
\* reported and no report or model file is written.
C18_EmptyCorpusAborts ==
    csv = <<>> /\ LoadedFiles = <<>> =>
        /\ pc \in BeforeSplit \cup {"aborted"}
        /\ pc = "aborted" => exc = [type |-> "ValueError", at |-> "split"]
        /\ vectorizer = NotFitted
        /\ model = NotTrained
        /\ PrintedMetrics = <<>>
        /\ files = {}

\* the run on an empty CSV and a directory whose only file does not load
\* has aborted at the split
C18_Witness ==
    /\ csv = <<>>
    /\ sites.exists
    /\ Len(sites.listing) >= 1
    /\ LoadedFiles = <<>>
    /\ pc = "aborted"
    /\ df = <<>>
    /\ exc.at = "split"

\* the seven text fields of a record are all absent
AllAbsent(row) == \A k \in 1..Len(FieldNames) : isnull(row[FieldNames[k]])

\* a field of a record as text, an absent field being the empty string
FieldText(row, name) == IF isnull(row[name]) THEN <<>> ELSE row[name].chars

\* the fields of a record in the fixed order, a single space between them
Concatenated(row) ==
    FieldText(row, "title") \o <<" ">> \o FieldText(row, "location") \o <<" ">>
        \o FieldText(row, "department") \o <<" ">>
        \o FieldText(row, "company_profile") \o <<" ">>
        \o FieldText(row, "description") \o <<" ">>
        \o FieldText(row, "requirements") \o <<" ">>
        \o FieldText(row, "benefits")

NotConverged ==
    \E k \in 1..Len(stderr) : stderr[k].category = "ConvergenceWarning"

\* C20: when the optimizer stops at its maximum iteration count without
\* meeting its tolerance, training still returns a usable classifier, the
\* failure is a warning, and the run goes on to evaluation; the optimizer
\* never iterates past the maximum.
C20_ConvergenceFailureNotFatal ==
    /\ model.n_iter_ <= max_iter
    /\ exc.at = "train" => Cardinality(unique(y_train)) < 2
    /\ NotConverged =>
          /\ model.fitted
          /\ model.n_iter_ = max_iter
          /\ Len(model.coef_) = Len(vectorizer.vocabulary_)
          /\ exc.at # "train"
          /\ pc \in {"console", "markdown", "save", "done"} =>
                /\ Len(y_pred) = Len(X_test)
                /\ Range(y_pred) \subseteq {0, 1}

\* a run whose optimizer did not converge has been evaluated and has ended
C20_Witness ==
    /\ pc = "done"
    /\ NotConverged
    /\ model.n_iter_ = max_iter
    /\ Len(y_pred) = Len(X_test)

-----------------------------------------------------------------------------
(* Claims about the reports and the order of the stages *)

\* the vocabulary index of a term
IndexOf(t) == CHOOSE j \in 1..Len(vectorizer.vocabulary_) : vectorizer.vocabulary_[j] = t

\* the pair a is listed before the pair b: by weight, then by index
ListedBefore(a, b, descending) ==
    \/ IF descending THEN a.weight > b.weight ELSE a.weight < b.weight
    \/ a.weight = b.weight /\ IndexOf(a.term) < IndexOf(b.term)

\* the list holds the first min(top_n, |vocabulary|) pairs of the order
IsTopList(list, descending) ==
    LET V == vectorizer.vocabulary_
        listed == {list[k].term : k \in 1..Len(list)}
    IN  /\ Len(list) = (IF Len(V) < top_n THEN Len(V) ELSE top_n)
        /\ \A k \in 1..Len(list) :
              /\ list[k].term \in Range(V)
              /\ list[k].weight = model.coef_[IndexOf(list[k].term)]
        /\ \A k \in 1..(Len(list) - 1) :
              ListedBefore(list[k], list[k + 1], descending)
        /\ \A k \in 1..Len(list) : \A j \in 1..Len(V) :
              V[j] \notin listed =>
                  ListedBefore(list[k], [term |-> V[j], weight |-> model.coef_[j]],
                               descending)

\* C21: the fraud-indicator list is the first min(top_n, |vocabulary|)
\* (term, weight) pairs in descending weight order, the legitimacy-indicator
\* list the first ones in ascending weight order; in both, terms of equal
\* weight are in increasing vocabulary-index order.
C21_TopLists ==
    pc = "console" =>
        /\ IsTopList(top_fraud_features, TRUE)
        /\ IsTopList(top_legit_features, FALSE)

\* more terms than the lists hold, two of equal weight at the head of the
\* fraud list
C21_Witness ==
    /\ pc = "console"
    /\ Len(vectorizer.vocabulary_) > top_n
    /\ Len(top_fraud_features) = top_n
    /\ top_fraud_features[1].weight = top_fraud_features[2].weight
    /\ top_fraud_features[1].weight # 0

\* the weights differ: the two lists start from opposite ends
C21_WitnessDistinct ==
    /\ pc = "console"
    /\ Len(vectorizer.vocabulary_) > top_n
    /\ top_fraud_features[1].weight > top_fraud_features[2].weight
    /\ top_legit_features[1].weight < top_legit_features[2].weight

\* the one line of the terminal report that starts with msg
Printed(msg) == SelectSeq(stdout, LAMBDA m : m.msg = msg)[1]

\* the number a grouped figure such as 17,880 stands for, as its digits
ungrouped(text) == SelectSeq(text, LAMBDA c : c # ",")

Stages ==
    <<"read_csv", "combine", "clean", "extract", "extract_loop", "add_fraud",
      "split", "vectorize", "transform", "train", "evaluate", "rank",
      "console", "markdown", "save", "done">>

Pickles == {"nlp_model.pkl", "vectorizer.pkl"}

MetricsComputed ==
    /\ accuracy.set /\ precision.set /\ recall.set /\ f1.set /\ roc_auc.set
    /\ cm # <<>>

\* what a stage has produced exists only if the stage before has produced
\* its own
StagesComplete ==
    /\ (X_train # <<>> \/ X_test # <<>>) => df # <<>>
    /\ vectorizer # NotFitted => X_train # <<>> /\ X_test # <<>>
    /\ model.fitted =>
           /\ vectorizer # NotFitted
           /\ Len(X_train_vec) = Len(X_train)
           /\ Len(X_test_vec) = Len(X_test)
    /\ y_pred # <<>> => model.fitted
    /\ (accuracy.set \/ cm # <<>>) => Len(y_pred) = Len(X_test) /\ y_pred # <<>>
    /\ SelectSeq(stdout, LAMBDA m : m.msg = "Dataset Size") # <<>> =>
           MetricsComputed
    /\ report_content # <<>> =>
           SelectSeq(stdout, LAMBDA m : m.msg = "TOP 10 LEGITIMACY INDICATORS")
               # <<>>
    /\ "model_evaluation_report.md" \in files => report_content # <<>>
    /\ Pickles \cap files # {} =>
           /\ Pickles \subseteq files
           /\ "model_evaluation_report.md" \in files
           /\ MetricsComputed
           /\ pc = "done"
    /\ pc = "aborted" => Pickles \cap files = {}

\* a step moves to the next position of the script, aborts, or starts the
\* next run after the last one has ended
StepInOrder ==
    pc' # pc =>
        \/ \E i \in 1..(Len(Stages) - 1) : pc = Stages[i] /\ pc' = Stages[i + 1]
        \/ pc \notin Halted /\ pc' = "aborted" /\ files' = files
        \/ pc \in Halted /\ pc' = Stages[1] /\ run' = run + 1

\* C23: the stages run in the order of the script, each on the finished
\* result of the one before; the two pickles are written last, after every
\* metric is computed and the report is written, and a run that aborts has
\* written neither
C23_StageOrder == [](StagesComplete) /\ [][StepInOrder]_vars

\* a run has gone through every stage and has written the report and the
\* two pickles
C23_Witness ==
    /\ pc = "done"
    /\ files = Pickles \cup {"model_evaluation_report.md"}
    /\ MetricsComputed

\* a run has aborted after the metrics were computed (second case)
C23_WitnessAborted ==
    /\ pc = "aborted"
    /\ exc.at = "console"
    /\ accuracy.set
    /\ files = {}

-----------------------------------------------------------------------------
(* Claims about the upload script *)

\* the URLs Firestore held when upload_fraud_urls_to_firestore was called
StoredBefore ==
    (IF before.fraud_data.exists THEN Range(before.fraud_data.urls) ELSE {})
        \cup {d.url : d \in {r \in before.fraud_urls : r.has_url}}

\* the urls list of fraud_data/fraud_urls has no URL twice and url_count is
\* its length
WellFormedDocument ==
    /\ \A i, j \in 1..Len(fraud_data.urls) :
           fraud_data.urls[i] = fraud_data.urls[j] => i = j
    /\ fraud_data.url_count = Len(fraud_data.urls)

\* C24: when upload_fraud_urls_to_firestore has returned True, the written
\* urls list holds every URL stored before the call and every URL of the
\* input, none twice, and url_count is its length; when it has returned
\* False, the document is as it was before the call
C24_NoUrlLost ==
    /\ fraud_success = "True" =>
           /\ StoredBefore \subseteq Range(fraud_data.urls)
           /\ Range(new_urls.items) \subseteq Range(fraud_data.urls)
           /\ WellFormedDocument
    /\ fraud_success = "False" => fraud_data = before.fraud_data

\* what does hold of a merge that returned True: the input is in the list,
\* the list is well formed, and the stored URLs are in it if the fetch
\* returned them
C24_MergeOfFetched ==
    fraud_success = "True" =>
        /\ Range(new_urls.items) \subseteq Range(fraud_data.urls)
        /\ existing_urls \subseteq Range(fraud_data.urls)
        /\ WellFormedDocument
        /\ existing_urls \in {{}, StoredBefore}

\* a merge returned True although a stored URL is not in the written list
C24_UrlLost ==
    /\ fraud_success = "True"
    /\ \E u \in StoredBefore : u \notin Range(fraud_data.urls)

\* C25: when upload_to_firestore has returned True, all five documents are
\* of this call; when it has returned False, none of the five was changed;
\* once it has returned, the five documents are of one upload
C25_AllOrNothing ==
    /\ model_success = "True" =>
           \A d \in Range(ModelDocs) : nlp_models[d] = "new"
    /\ model_success = "False" => nlp_models = before.nlp_models
    /\ model_success # "unset" =>
           \A d, e \in Range(ModelDocs) : nlp_models[d] = nlp_models[e]

\* what does hold: a call that returned True has written all five, and a
\* call that returned False has written a prefix of the five in the order
\* of the script
C25_PrefixWritten ==
    /\ model_success = "True" =>
           \A d \in Range(ModelDocs) : nlp_models[d] = "new"
    /\ \A i, j \in 1..Len(ModelDocs) :
           i < j /\ nlp_models[ModelDocs[j]] = "new" =>
               nlp_models[ModelDocs[i]] = "new"
    /\ \A d \in Range(ModelDocs) :
           nlp_models[d] # "new" => nlp_models[d] = before.nlp_models[d]

\* a call returned False and left documents of two uploads
C25_MixedUploads ==
    /\ model_success = "False"
    /\ nlp_models["metadata"] = "new"
    /\ nlp_models["feature_count"] = "old"

====
